---------------------------- MODULE Spec2Model ----------------------------
(***************************************************************************)
(* Model of the casting-agency API (app.py, models.py): two tables         *)
(* (persons, games) plus the Performance association, eight endpoints      *)
(* behind the requires_auth permission gate, pagination and the error      *)
(* handlers.  One step of the model is one HTTP request served from        *)
(* routing to response.                                                    *)
(*                                                                         *)
(* auth.py and config.py are not among the sources; the permission gate    *)
(* (GetTokenAuthHeader, VerifyDecodeJwt, CheckPermissions, RequiresAuth)   *)
(* follows section 4.1 of the specification.                               *)
(***************************************************************************)
EXTENDS Integers, Sequences, FiniteSets, TLC

VARIABLES
    persons,        \* rows of table persons, in table order
    games,          \* rows of table games, in table order
    performance,    \* rows of association table Performance
    nextPersonId,   \* next value of the persons.id sequence
    nextGameId,     \* next value of the games.id sequence
    request,        \* the request served last
    response,       \* the response to it
    before,         \* history: tables and id history as they were before it
    hist,           \* history: ids ever assigned / ever deleted, per table
    pgPage,         \* paginate_results: the page argument
    pgSelection,    \* paginate_results: the selection argument
    pgResult,       \* paginate_results: the returned list
    pgDone,         \* paginate_results: has returned
    rcRequest,      \* concurrent handlers: the request each one serves
    rcPc,           \* concurrent handlers: where each one is in its view
    rcLoaded,       \* concurrent handlers: the row as one_or_none loaded it
    rcObject,       \* concurrent handlers: the row object after assignment
    rcResponse,     \* concurrent handlers: the response each one returned
    rcOrder         \* concurrent handlers: who committed, in commit order

vars == <<persons, games, performance, nextPersonId, nextGameId, request,
          response, before, hist, pgPage, pgSelection, pgResult, pgDone,
          rcRequest, rcPc, rcLoaded, rcObject, rcResponse, rcOrder>>

dbVars == <<persons, games, performance, nextPersonId, nextGameId, request,
            response, before, hist>>

pgVars == <<pgPage, pgSelection, pgResult, pgDone>>

rcVars == <<rcRequest, rcPc, rcLoaded, rcObject, rcResponse, rcOrder>>

-----------------------------------------------------------------------------
(* Bounds *)

\* page size; app.py:10 reads it from config.pagination['example']
ROWS_PER_PAGE == 2
\* the id sequences stop handing out ids beyond this
MaxId == 2
\* largest page number requested
MaxPage == 2
\* longest selection handed to paginate_results on its own
MaxSelection == 4

-----------------------------------------------------------------------------
(* Python values *)

\* an optional value: {} is None / key absent, {v} is the value v
NoneVal == {}

Some(v) == {v}

TheVal(o) == CHOOSE v \in o : TRUE

\* Python truthiness ("not x") of an optional string: None and "" are falsy
FalsyStr(o) == o = {} \/ o = {""}

\* Python truthiness ("not x") of an optional integer: None and 0 are falsy
FalsyInt(o) == o = {} \/ o = {0}

Min2(a, b) == IF a < b THEN a ELSE b

Max2(a, b) == IF a > b THEN a ELSE b

\* Python's index clamping for a slice bound
SliceIndex(i, n) == IF i < 0 THEN Max2(n + i, 0) ELSE Min2(i, n)

\* Python's s[start:stop] (0-based, step 1)
PySlice(s, start, stop) ==
    LET lo == SliceIndex(start, Len(s))
        hi == SliceIndex(stop, Len(s))
    IN  IF lo < hi THEN SubSeq(s, lo + 1, hi) ELSE <<>>

\* list comprehension [x for x in s if keep(x)]
RECURSIVE FilterSeq(_, _)
FilterSeq(s, drop) ==
    IF s = <<>> THEN <<>>
    ELSE IF Head(s).id = drop THEN FilterSeq(Tail(s), drop)
         ELSE <<Head(s)>> \o FilterSeq(Tail(s), drop)

Ids(rows) == {rows[i].id : i \in DOMAIN rows}


-----------------------------------------------------------------------------
(* models.py: rows and the persistence operations *)

\* Person.__init__ followed by the flush that assigns the primary key
Person(id, name, gender, age) ==
    [id |-> id, name |-> name, gender |-> gender, age |-> age]

\* Game.__init__ followed by the flush that assigns the primary key
Game(id, title, release_date) ==
    [id |-> id, title |-> title, release_date |-> release_date]

\* Person.format
PersonFormat(p) ==
    [id |-> p.id, name |-> p.name, gender |-> p.gender, age |-> p.age]

\* Game.format
GameFormat(g) ==
    [id |-> g.id, title |-> g.title, release_date |-> g.release_date]

\* id = Column(Integer, primary_key=True) on PostgreSQL: the id is drawn
\* from the table's sequence, which never hands a value out twice
AssignedIdReusing(next, rows) ==
    IF rows = <<>> THEN 1 ELSE rows[Len(rows)].id + 1

AssignedId(next, rows) == next

\* insert(): session.add + commit
InsertRow(rows, row) == Append(rows, row)

\* update(): commit of the fields set on the loaded object
UpdateRow(rows, row) ==
    [i \in DOMAIN rows |-> IF rows[i].id = row.id THEN row ELSE rows[i]]

\* a commit that writes every column of the object
CommitEveryColumn(rows, loaded, object) ==
    [i \in DOMAIN rows |-> IF rows[i].id = object.id THEN object ELSE rows[i]]

\* update(): session.commit() of an object loaded as `loaded` whose
\* attributes are now those of `object`.  The flush emits UPDATE ... SET for
\* the attributes whose value differs from the loaded one, WHERE id =
\* object.id, on the row as it is stored at commit time
Commit(rows, loaded, object) ==
    [i \in DOMAIN rows |->
        IF rows[i].id = object.id
        THEN [f \in DOMAIN rows[i] |->
                IF object[f] # loaded[f] THEN object[f] ELSE rows[i][f]]
        ELSE rows[i]]

\* delete(): session.delete + commit
DeleteRowKeeping(rows, id) == rows

DeleteRow(rows, id) == FilterSeq(rows, id)

\* Model.query.filter(Model.id == id).one_or_none(): {} or {row}
OneOrNone(rows, id) == {rows[i] : i \in {j \in DOMAIN rows : rows[j].id = id}}

\* db_init_records: the Performance row is built from new_game.id and
\* new_person.id before either object is inserted, when both ids are still
\* None; the inserts then draw the first id of each fresh sequence
DbInitRecords ==
    LET new_person      == [id |-> NoneVal, name |-> "Matthew",
                            gender |-> "Male", age |-> 25]
        new_game        == [id |-> NoneVal, title |-> "Matthew first Game",
                            release_date |-> "today"]
        new_performance == [Game_id |-> new_game.id,
                            Person_id |-> new_person.id,
                            person_fee |-> 500]
        person_id       == AssignedId(1, <<>>)
        game_id         == AssignedId(1, <<>>)
    IN  [persons |-> InsertRow(<<>>, Person(person_id, new_person.name,
                                            new_person.gender, new_person.age)),
         games |-> InsertRow(<<>>, Game(game_id, new_game.title,
                                        new_game.release_date)),
         performance |-> <<new_performance>>,
         nextPersonId |-> person_id + 1,
         nextGameId |-> game_id + 1]

\* db_drop_and_create_all: drop_all, create_all, db_init_records
DbDropAndCreateAll == DbInitRecords

-----------------------------------------------------------------------------
(* Requests *)

Endpoints == {"get_persons", "insert_persons", "edit_persons", "delete_persons",
              "get_games", "insert_games", "edit_games", "delete_games"}

AllPermissions == {"read:persons", "create:persons", "edit:persons",
                   "delete:persons", "read:games", "create:games",
                   "edit:games", "delete:games"}

\* @app.route(rule, methods=[...]): the view registered for a method and a
\* path, "" when the rule has no view for the method
Route(method, resource, item) ==
    CASE resource = "persons" /\ ~item /\ method = "GET"    -> "get_persons"
      [] resource = "persons" /\ ~item /\ method = "POST"   -> "insert_persons"
      [] resource = "persons" /\ item /\ method = "PATCH"   -> "edit_persons"
      [] resource = "persons" /\ item /\ method = "DELETE"  -> "delete_persons"
      [] resource = "games" /\ ~item /\ method = "GET"      -> "get_games"
      [] resource = "games" /\ ~item /\ method = "POST"     -> "insert_games"
      [] resource = "games" /\ item /\ method = "PATCH"     -> "edit_games"
      [] resource = "games" /\ item /\ method = "DELETE"    -> "delete_games"
      [] OTHER -> ""

\* @requires_auth(<permission>) above each view
RequiredPermissionCopied(ep) ==
    CASE ep = "get_persons"    -> "read:persons"
      [] ep = "insert_persons" -> "create:persons"
      [] ep = "edit_persons"   -> "edit:persons"
      [] ep = "delete_persons" -> "delete:persons"
      [] ep = "get_games"      -> "read:games"
      [] ep = "insert_games"   -> "create:games"
      [] ep = "edit_games"     -> "edit:games"
      [] ep = "delete_games"   -> "edit:games"

RequiredPermission(ep) ==
    CASE ep = "get_persons"    -> "read:persons"
      [] ep = "insert_persons" -> "create:persons"
      [] ep = "edit_persons"   -> "edit:persons"
      [] ep = "delete_persons" -> "delete:persons"
      [] ep = "get_games"      -> "read:games"
      [] ep = "insert_games"   -> "create:games"
      [] ep = "edit_games"     -> "edit:games"
      [] ep = "delete_games"   -> "delete:games"

\* every view is registered wrapped by requires_auth (the decorator sits
\* between @app.route and the def)
DecoratedButInsert(ep) == ep # "insert_persons"

Decorated(ep) == TRUE

\* the parameters each view function declares
ViewParams(ep) ==
    CASE ep = "get_persons"    -> <<>>
      [] ep = "insert_persons" -> <<>>
      [] ep = "edit_persons"   -> <<"payload", "person_id">>
      [] ep = "delete_persons" -> <<"payload", "person_id">>
      [] ep = "get_games"      -> <<"payload">>
      [] ep = "insert_games"   -> <<"payload">>
      [] ep = "edit_games"     -> <<"payload", "game_id">>
      [] ep = "delete_games"   -> <<"payload", "game_id">>

\* the keyword arguments the URL rule supplies (<person_id>, <game_id>)
ViewArgs(ep) ==
    CASE ep \in {"edit_persons", "delete_persons"} -> {"person_id"}
      [] ep \in {"edit_games", "delete_games"}     -> {"game_id"}
      [] OTHER -> {}

\* Python's binding of a call f(*positional, **keywords) to f's parameters:
\* the call raises TypeError unless every parameter gets exactly one value
Binds(params, npositional, keywords) ==
    /\ npositional <= Len(params)
    /\ keywords \subseteq {params[i] : i \in npositional + 1 .. Len(params)}
    /\ \A i \in npositional + 1 .. Len(params) : params[i] \in keywords

-----------------------------------------------------------------------------
(* The permission gate (auth.py, specification section 4.1).  Only two    *)
(* descriptions are fixed by the specification; the others carry the name *)
(* of the failure.                                                        *)

AuthError(status_code, code, description) ==
    [ok |-> FALSE, status_code |-> status_code, code |-> code,
     description |-> description, payload |-> NoneVal]

AuthPassed(payload) ==
    [ok |-> TRUE, status_code |-> 0, code |-> "", description |-> "",
     payload |-> Some(payload)]

\* get_token_auth_header: the Authorization header must be "Bearer <token>"
GetTokenAuthHeader(r) ==
    CASE r.header = "absent" ->
            AuthError(401, "AuthHeaderMissing", "Authorization header is expected.")
      [] r.header = "malformed" ->
            AuthError(401, "AuthHeaderMalformed", "AuthHeaderMalformed")
      [] OTHER -> AuthPassed([token |-> r.token])

\* verify_decode_jwt: expiry, issuer/audience and signature of the token;
\* the decoded payload carries the permissions claim when the token has one
VerifyDecodeJwt(r) ==
    CASE r.token = "expired" ->
            AuthError(401, "TokenExpired", "TokenExpired")
      [] r.token = "invalid_claims" ->
            AuthError(401, "TokenInvalidClaims", "TokenInvalidClaims")
      [] r.token = "invalid_signature" ->
            AuthError(401, "TokenInvalidSignature", "TokenInvalidSignature")
      [] OTHER ->
            AuthPassed([permissions |-> IF r.claim THEN Some(r.perms) ELSE NoneVal])

\* check_permissions(permission, payload)
CheckPermissions(permission, payload) ==
    IF payload.permissions = NoneVal
    THEN AuthError(400, "PermissionsClaimMissing", "PermissionsClaimMissing")
    ELSE IF permission \notin TheVal(payload.permissions)
         THEN AuthError(403, "PermissionNotFound", "Permission not found.")
         ELSE AuthPassed(payload)

\* requires_auth(permission): header, then token, then permission; the
\* first failure is raised, otherwise the payload goes to the view
RequiresAuth(permission, r) ==
    LET header == GetTokenAuthHeader(r)
        token  == VerifyDecodeJwt(r)
    IN  IF ~header.ok THEN header
        ELSE IF ~token.ok THEN token
        ELSE CheckPermissions(permission, TheVal(token.payload))

-----------------------------------------------------------------------------
(* Responses and error handlers (app.py) *)

\* a response: status line and body.  json is FALSE for the framework's
\* own HTML error pages; error = 0 and id = {} stand for an absent key
Response(status, json, success, error, message) ==
    [status |-> status, json |-> json, success |-> success, error |-> error,
     message |-> message, key |-> "", id |-> NoneVal, deleted |-> "",
     listkey |-> "", records |-> <<>>, stage |-> "view"]

\* jsonify({'success': True, ...})
Success == Response(200, TRUE, TRUE, 0, "")

\* get_error_message(error, default_text): description is {} when the
\* error carries no {'message': ...} dictionary
GetErrorMessage(description, default_text) ==
    IF description = NoneVal THEN default_text ELSE TheVal(description)

\* @app.errorhandler(422 / 400 / 404): the registered handlers
ErrorHandler(code, description) ==
    CASE code = 422 ->
            Response(422, TRUE, FALSE, 422, GetErrorMessage(description, "unprocessable"))
      [] code = 400 ->
            Response(400, TRUE, FALSE, 400, GetErrorMessage(description, "bad request"))
      [] code = 404 ->
            Response(404, TRUE, FALSE, 404, GetErrorMessage(description, "resource not found"))
      [] OTHER ->
            \* no handler registered (405, 500): the framework's HTML page
            Response(code, FALSE, FALSE, 0, "")

\* abort(code, {'message': message})
Abort(code, message) == ErrorHandler(code, Some(message))

\* @app.errorhandler(AuthError)
AuthentificationFailedAlways401(err) ==
    [Response(401, TRUE, FALSE, 401, err.description) EXCEPT !.stage = "auth"]

AuthentificationFailed(err) ==
    [Response(err.status_code, TRUE, FALSE, err.status_code, err.description)
        EXCEPT !.stage = "auth"]

\* paginate_results(request, selection), selection already formatted
PaginateResults(page, formatted) ==
    LET start == (page - 1) * ROWS_PER_PAGE
        end   == start + ROWS_PER_PAGE
    IN  PySlice(formatted, start, end)

\* [object_name.format() for object_name in selection], of persons
FormatPersons(rows) == [i \in DOMAIN rows |-> PersonFormat(rows[i])]

\* [object_name.format() for object_name in selection], of games
FormatGames(rows) == [i \in DOMAIN rows |-> GameFormat(rows[i])]

\* request.args.get('page', 1, type=int)
PageArg(r) == IF r.page = NoneVal THEN 1 ELSE TheVal(r.page)

\* the path's id segment as the database compares it with the integer column
IdStrings == [i \in 1 .. MaxId + 1 |-> ToString(i)]

ParseId(s) == CHOOSE i \in DOMAIN IdStrings : IdStrings[i] = s

-----------------------------------------------------------------------------
(* Views (app.py).  A view maps the request and the database db to an     *)
(* outcome: the response and the database it leaves.                      *)

Outcome(resp, db) ==
    [response |-> resp, persons |-> db.persons, games |-> db.games,
     nextPersonId |-> db.nextPersonId, nextGameId |-> db.nextGameId]

\* request.get_json() is None or has no key at all: "not body"
BodyFalsy(body) ==
    \/ ~body.json
    \/ /\ body.name = NoneVal /\ body.age = NoneVal /\ body.gender = NoneVal
       /\ body.title = NoneVal /\ body.release_date = NoneVal

\* body.get(key, default) on an optional field
Get(field, default) == IF field = NoneVal THEN default ELSE TheVal(field)

\* get_persons
GetPersons(r, db) ==
    LET selection == db.persons
        persons_paginated ==
            PaginateResults(PageArg(r), FormatPersons(selection))
    IN  IF Len(persons_paginated) = 0
        THEN Outcome(Abort(404, "no persons found in database."), db)
        ELSE Outcome([Success EXCEPT !.listkey = "persons",
                                     !.records = persons_paginated], db)

\* insert_persons
InsertPersons(r, db) ==
    LET body   == r.body
        name   == body.name
        age    == body.age
        gender == Get(body.gender, "Other")
        id     == AssignedId(db.nextPersonId, db.persons)
        new_person == Person(id, TheVal(name), gender, TheVal(age))
    IN  IF BodyFalsy(body)
        THEN Outcome(Abort(400, "request does not contain a valid JSON body."), db)
        ELSE IF FalsyStr(name)
        THEN Outcome(Abort(422, "no name provided."), db)
        ELSE IF FalsyInt(age)
        THEN Outcome(Abort(422, "no age provided."), db)
        ELSE Outcome([Success EXCEPT !.key = "created", !.id = Some(id)],
                     [db EXCEPT !.persons = InsertRow(db.persons, new_person),
                                !.nextPersonId = db.nextPersonId + 1])

\* edit_persons, lines 185-192: the new field values of the loaded person
PatchedPersonDefaulting(person_to_update, body) ==
    [person_to_update EXCEPT
        !.name   = Get(body.name, person_to_update.name),
        !.age    = Get(body.age, person_to_update.age),
        !.gender = Get(body.gender, "Other")]

PatchedPerson(person_to_update, body) ==
    [person_to_update EXCEPT
        !.name   = Get(body.name, person_to_update.name),
        !.age    = Get(body.age, person_to_update.age),
        !.gender = Get(body.gender, person_to_update.gender)]

\* edit_persons
EditPersonsLookupFirst(r, db) ==
    LET body             == r.body
        person_id        == r.id
        person_to_update == OneOrNone(db.persons, ParseId(person_id))
        updated          == PatchedPerson(TheVal(person_to_update), body)
    IN  IF person_id = ""
        THEN Outcome(Abort(400, "please append an person id to the request url."), db)
        ELSE IF person_to_update = {}
        THEN Outcome(Abort(404, "Person with id " \o person_id \o " not found in database."), db)
        ELSE IF BodyFalsy(body)
        THEN Outcome(Abort(400, "request does not contain a valid JSON body."), db)
        ELSE Outcome([Success EXCEPT !.key = "updated", !.id = Some(updated.id),
                                     !.listkey = "person",
                                     !.records = <<PersonFormat(updated)>>],
                     [db EXCEPT !.persons = UpdateRow(db.persons, updated)])

\* edit_persons
EditPersons(r, db) ==
    LET body             == r.body
        person_id        == r.id
        person_to_update == OneOrNone(db.persons, ParseId(person_id))
        updated          == PatchedPerson(TheVal(person_to_update), body)
    IN  IF person_id = ""
        THEN Outcome(Abort(400, "please append an person id to the request url."), db)
        ELSE IF BodyFalsy(body)
        THEN Outcome(Abort(400, "request does not contain a valid JSON body."), db)
        ELSE IF person_to_update = {}
        THEN Outcome(Abort(404, "Person with id " \o person_id \o " not found in database."), db)
        ELSE Outcome([Success EXCEPT !.key = "updated", !.id = Some(updated.id),
                                     !.listkey = "person",
                                     !.records = <<PersonFormat(updated)>>],
                     [db EXCEPT !.persons = UpdateRow(db.persons, updated)])

\* delete_persons
DeletePersons(r, db) ==
    LET person_id        == r.id
        person_to_delete == OneOrNone(db.persons, ParseId(person_id))
    IN  IF person_id = ""
        THEN Outcome(Abort(400, "please append an person id to the request url."), db)
        ELSE IF person_to_delete = {}
        THEN Outcome(Abort(404, "Person with id " \o person_id \o " not found in database."), db)
        ELSE Outcome([Success EXCEPT !.key = "deleted", !.deleted = person_id],
                     [db EXCEPT !.persons =
                         DeleteRow(db.persons, TheVal(person_to_delete).id)])

\* get_games
GetGames(r, db) ==
    LET selection == db.games
        games_paginated ==
            PaginateResults(PageArg(r), FormatGames(selection))
    IN  IF Len(games_paginated) = 0
        THEN Outcome(Abort(404, "no games found in database."), db)
        ELSE Outcome([Success EXCEPT !.listkey = "games",
                                     !.records = games_paginated], db)

\* insert_games
\* insert_games with the insert moved before the release_date check
InsertGamesEarly(r, db) ==
    LET body         == r.body
        title        == body.title
        release_date == body.release_date
        id           == AssignedId(db.nextGameId, db.games)
        new_game     == Game(id, TheVal(title),
                             IF release_date = NoneVal THEN ""
                             ELSE TheVal(release_date))
        inserted     == [db EXCEPT !.games = InsertRow(db.games, new_game),
                                   !.nextGameId = db.nextGameId + 1]
    IN  IF BodyFalsy(body)
        THEN Outcome(Abort(400, "request does not contain a valid JSON body."), db)
        ELSE IF FalsyStr(title)
        THEN Outcome(Abort(422, "no title provided."), db)
        ELSE IF FalsyStr(release_date)
        THEN Outcome(Abort(422, "no \"release_date\" provided."), inserted)
        ELSE Outcome([Success EXCEPT !.key = "created", !.id = Some(id)], inserted)

InsertGames(r, db) ==
    LET body         == r.body
        title        == body.title
        release_date == body.release_date
        id           == AssignedId(db.nextGameId, db.games)
        new_game     == Game(id, TheVal(title), TheVal(release_date))
    IN  IF BodyFalsy(body)
        THEN Outcome(Abort(400, "request does not contain a valid JSON body."), db)
        ELSE IF FalsyStr(title)
        THEN Outcome(Abort(422, "no title provided."), db)
        ELSE IF FalsyStr(release_date)
        THEN Outcome(Abort(422, "no \"release_date\" provided."), db)
        ELSE Outcome([Success EXCEPT !.key = "created", !.id = Some(id)],
                     [db EXCEPT !.games = InsertRow(db.games, new_game),
                                !.nextGameId = db.nextGameId + 1])

\* edit_games, lines 337-342: the new field values of the loaded game
PatchedGame(game_to_update, body) ==
    [game_to_update EXCEPT
        !.title        = Get(body.title, game_to_update.title),
        !.release_date = Get(body.release_date, game_to_update.release_date)]

\* edit_games
EditGames(r, db) ==
    LET body           == r.body
        game_id        == r.id
        game_to_update == OneOrNone(db.games, ParseId(game_id))
        updated        == PatchedGame(TheVal(game_to_update), body)
    IN  IF game_id = ""
        THEN Outcome(Abort(400, "please append an game id to the request url."), db)
        ELSE IF BodyFalsy(body)
        THEN Outcome(Abort(400, "request does not contain a valid JSON body."), db)
        ELSE IF game_to_update = {}
        THEN Outcome(Abort(404, "Game with id " \o game_id \o " not found in database."), db)
        ELSE Outcome([Success EXCEPT !.key = "edited", !.id = Some(updated.id),
                                     !.listkey = "game",
                                     !.records = <<GameFormat(updated)>>],
                     [db EXCEPT !.games = UpdateRow(db.games, updated)])

\* delete_games
DeleteGames(r, db) ==
    LET game_id        == r.id
        game_to_delete == OneOrNone(db.games, ParseId(game_id))
    IN  IF game_id = ""
        THEN Outcome(Abort(400, "please append an game id to the request url."), db)
        ELSE IF game_to_delete = {}
        THEN Outcome(Abort(404, "Game with id " \o game_id \o " not found in database."), db)
        ELSE Outcome([Success EXCEPT !.key = "deleted", !.deleted = game_id],
                     [db EXCEPT !.games =
                         DeleteRow(db.games, TheVal(game_to_delete).id)])

\* the view function registered under an endpoint name
View(ep, r, db) ==
    CASE ep = "get_persons"    -> GetPersons(r, db)
      [] ep = "insert_persons" -> InsertPersons(r, db)
      [] ep = "edit_persons"   -> EditPersons(r, db)
      [] ep = "delete_persons" -> DeletePersons(r, db)
      [] ep = "get_games"      -> GetGames(r, db)
      [] ep = "insert_games"   -> InsertGames(r, db)
      [] ep = "edit_games"     -> EditGames(r, db)
      [] ep = "delete_games"   -> DeleteGames(r, db)

\* a call of the view that raises TypeError, or a request no rule's methods
\* accept: no handler is registered for 500 or 405
Unhandled(code, stage) == [ErrorHandler(code, NoneVal) EXCEPT !.stage = stage]

\* One request from routing to response: the rule's methods, the
\* requires_auth wrapper, which calls f(payload, *args, **kwargs), the view,
\* and the error handlers
Dispatch(r, db) ==
    LET ep   == Route(r.method, r.resource, r.item)
        gate == RequiresAuth(RequiredPermission(ep), r)
    IN  IF ep = "" THEN Outcome(Unhandled(405, "router"), db)
        ELSE IF Decorated(ep) /\ ~gate.ok
        THEN Outcome(AuthentificationFailed(gate), db)
        ELSE IF ~Binds(ViewParams(ep), IF Decorated(ep) THEN 1 ELSE 0, ViewArgs(ep))
        THEN Outcome(Unhandled(500, "call"), db)
        ELSE View(ep, r, db)

-----------------------------------------------------------------------------
(* The requests the clients send *)

Body(json, name, age, gender, title, release_date) ==
    [json |-> json, name |-> name, age |-> age, gender |-> gender,
     title |-> title, release_date |-> release_date]

\* no JSON body at all
NoBody == Body(FALSE, NoneVal, NoneVal, NoneVal, NoneVal, NoneVal)

PersonBody(name, age, gender) == Body(TRUE, name, age, gender, NoneVal, NoneVal)

GameBody(title, release_date) == Body(TRUE, NoneVal, NoneVal, NoneVal, title, release_date)

\* bodies sent to POST /persons
PersonPostBodies ==
    {NoBody,
     PersonBody(Some("Crisso"), Some(30), NoneVal),
     PersonBody(NoneVal, Some(30), NoneVal),
     PersonBody(Some(""), Some(30), NoneVal),
     PersonBody(Some("Crisso"), NoneVal, NoneVal),
     PersonBody(Some("Crisso"), Some(0), NoneVal)}

\* bodies sent to PATCH /persons/<id>
PersonPatchBodies ==
    {NoBody,
     PersonBody(NoneVal, NoneVal, Some("Female")),
     PersonBody(Some(""), Some(0), NoneVal)}

\* bodies sent to POST /games; the last has no key the view reads
GamePostBodies ==
    {NoBody,
     GameBody(NoneVal, NoneVal),
     GameBody(Some("G2"), Some("2020-01-02")),
     GameBody(NoneVal, Some("2020-01-02")),
     GameBody(Some(""), Some("2020-01-02")),
     GameBody(Some("G2"), NoneVal),
     PersonBody(Some("Crisso"), NoneVal, NoneVal)}

\* bodies sent to PATCH /games/<id>; the last has no key the view reads
GamePatchBodies ==
    {NoBody,
     GameBody(Some("G2"), NoneVal),
     GameBody(NoneVal, Some("2020-01-02")),
     PersonBody(Some("Crisso"), NoneVal, NoneVal)}

Pages == {NoneVal, Some(-1)} \cup {Some(p) : p \in 1 .. MaxPage}

PathIds == {IdStrings[i] : i \in DOMAIN IdStrings}

\* what a request carries besides its credentials, per endpoint
Args(id, page, body) == [id |-> id, page |-> page, body |-> body]

ArgsOf(ep) ==
    CASE ep \in {"get_persons", "get_games"} ->
            {Args("", p, NoBody) : p \in Pages}
      [] ep = "insert_persons" -> {Args("", NoneVal, b) : b \in PersonPostBodies}
      [] ep = "insert_games"   -> {Args("", NoneVal, b) : b \in GamePostBodies}
      [] ep = "edit_persons" ->
            {Args(i, NoneVal, b) : i \in PathIds, b \in PersonPatchBodies}
      [] ep = "edit_games" ->
            {Args(i, NoneVal, b) : i \in PathIds, b \in GamePatchBodies}
      [] ep \in {"delete_persons", "delete_games"} ->
            {Args(i, NoneVal, NoBody) : i \in PathIds}

\* one request per endpoint that changes the database if its view runs
ProbeArgs(ep) ==
    CASE ep \in {"get_persons", "get_games"} -> Args("", Some(1), NoBody)
      [] ep = "insert_persons" ->
            Args("", NoneVal, PersonBody(Some("Crisso"), Some(30), NoneVal))
      [] ep = "insert_games" ->
            Args("", NoneVal, GameBody(Some("G2"), Some("2020-01-02")))
      [] ep = "edit_persons" ->
            Args(IdStrings[1], NoneVal, PersonBody(NoneVal, NoneVal, Some("Female")))
      [] ep = "edit_games" ->
            Args(IdStrings[1], NoneVal, GameBody(Some("G2"), NoneVal))
      [] ep \in {"delete_persons", "delete_games"} ->
            Args(IdStrings[1], NoneVal, NoBody)

\* the permission the interface table (specification section 6) lists for
\* an endpoint
TablePermission(ep) ==
    CASE ep = "get_persons"    -> "read:persons"
      [] ep = "insert_persons" -> "create:persons"
      [] ep = "edit_persons"   -> "edit:persons"
      [] ep = "delete_persons" -> "delete:persons"
      [] ep = "get_games"      -> "read:games"
      [] ep = "insert_games"   -> "create:games"
      [] ep = "edit_games"     -> "edit:games"
      [] ep = "delete_games"   -> "delete:games"

Credentials(header, token, claim, perms) ==
    [header |-> header, token |-> token, claim |-> claim, perms |-> perms]

\* a token of a role that holds every permission
FullToken == Credentials("bearer", "valid", TRUE, AllPermissions)

\* credentials sent with the probe request of an endpoint: every way the
\* gate can fail, alone and together with later failures, and the token
\* that holds the endpoint's permission and no other
ProbeCredentials(ep) ==
    LET need == TablePermission(ep)
    IN  {Credentials("absent", "valid", TRUE, AllPermissions),
         Credentials("malformed", "expired", FALSE, {}),
         Credentials("bearer", "expired", TRUE, AllPermissions),
         Credentials("bearer", "invalid_claims", FALSE, {}),
         Credentials("bearer", "invalid_signature", TRUE, {}),
         Credentials("bearer", "valid", FALSE, {}),
         Credentials("bearer", "valid", TRUE, {}),
         Credentials("bearer", "valid", TRUE, AllPermissions \ {need}),
         Credentials("bearer", "valid", TRUE, {need})}

Methods == {"GET", "POST", "PATCH", "DELETE"}

Resources == {"persons", "games"}

Request(method, resource, item, cred, args) ==
    [method |-> method, resource |-> resource, item |-> item,
     header |-> cred.header, token |-> cred.token, claim |-> cred.claim,
     perms |-> cred.perms, id |-> args.id, page |-> args.page,
     body |-> args.body]

\* the requests to the endpoint a method/path pair routes to
RequestsTo(method, resource, item) ==
    LET ep == Route(method, resource, item)
    IN  IF ep = ""
        THEN {Request(method, resource, item, FullToken,
                      Args(IF item THEN IdStrings[1] ELSE "", NoneVal, NoBody))}
        ELSE {Request(method, resource, item, FullToken, a) : a \in ArgsOf(ep)}
             \cup {Request(method, resource, item, c, ProbeArgs(ep)) :
                      c \in ProbeCredentials(ep)}

GetPersonsRequests == RequestsTo("GET", "persons", FALSE)

InsertPersonsRequests == RequestsTo("POST", "persons", FALSE)

EditPersonsRequests == RequestsTo("PATCH", "persons", TRUE)

DeletePersonsRequests == RequestsTo("DELETE", "persons", TRUE)

GetGamesRequests == RequestsTo("GET", "games", FALSE)

InsertGamesRequests == RequestsTo("POST", "games", FALSE)

EditGamesRequests == RequestsTo("PATCH", "games", TRUE)

DeleteGamesRequests == RequestsTo("DELETE", "games", TRUE)

\* requests with a method the path's rule does not list
UnroutedRequests ==
    UNION {RequestsTo(m, res, item) :
             <<m, res, item>> \in {t \in Methods \X Resources \X BOOLEAN :
                                     Route(t[1], t[2], t[3]) = ""}}

-----------------------------------------------------------------------------
(* The state machine *)

Database == [persons |-> persons, games |-> games,
             nextPersonId |-> nextPersonId, nextGameId |-> nextGameId]

\* ids that ever were in a table, and ids a DELETE request was answered
\* 200 for
History(h, r, out) ==
    LET ep  == Route(r.method, r.resource, r.item)
        hit == out.response.status = 200
    IN  [personIds      |-> h.personIds \cup Ids(out.persons),
         gameIds        |-> h.gameIds \cup Ids(out.games),
         deletedPersons |-> h.deletedPersons \cup
            (IF ep = "delete_persons" /\ hit THEN {ParseId(r.id)} ELSE {}),
         deletedGames   |-> h.deletedGames \cup
            (IF ep = "delete_games" /\ hit THEN {ParseId(r.id)} ELSE {})]

NoRequest ==
    Request("", "", FALSE, FullToken, Args("", NoneVal, NoBody))

NoResponse == [Response(0, FALSE, FALSE, 0, "") EXCEPT !.stage = "none"]

\* the database as db_drop_and_create_all leaves it (the tests' setUp),
\* before the first request
InitDb ==
    LET db == DbDropAndCreateAll
    IN  /\ persons = db.persons
        /\ games = db.games
        /\ performance = db.performance
        /\ nextPersonId = db.nextPersonId
        /\ nextGameId = db.nextGameId
        /\ request = NoRequest
        /\ response = NoResponse
        /\ hist = [personIds |-> Ids(db.persons), gameIds |-> Ids(db.games),
                   deletedPersons |-> {}, deletedGames |-> {}]
        /\ before = [persons |-> db.persons, games |-> db.games, hist |-> hist]

\* the two handlers that may run at the same time
Handlers == {1, 2}

\* no paginate_results call under way
InitPg ==
    /\ pgPage = 1
    /\ pgSelection = <<>>
    /\ pgResult = <<>>
    /\ pgDone = FALSE

\* no concurrent handler under way
InitRc ==
    /\ rcRequest = [k \in Handlers |-> NoRequest]
    /\ rcPc = [k \in Handlers |-> "idle"]
    /\ rcLoaded = [k \in Handlers |-> NoneVal]
    /\ rcObject = [k \in Handlers |-> NoneVal]
    /\ rcResponse = [k \in Handlers |-> NoResponse]
    /\ rcOrder = <<>>

Init ==
    /\ InitDb
    /\ InitPg
    /\ InitRc

\* the server answers one request
Serve(r) ==
    \E out \in {Dispatch(r, Database)} :
        /\ out.nextPersonId <= MaxId + 1
        /\ out.nextGameId <= MaxId + 1
        /\ persons' = out.persons
        /\ games' = out.games
        /\ nextPersonId' = out.nextPersonId
        /\ nextGameId' = out.nextGameId
        /\ request' = r
        /\ response' = out.response
        /\ before' = [persons |-> persons, games |-> games, hist |-> hist]
        /\ hist' = History(hist, r, out)
        /\ UNCHANGED <<performance, pgVars, rcVars>>

\* GET /persons
GetPersonsRequest ==
    \E r \in GetPersonsRequests :
        /\ Route(r.method, r.resource, r.item) = "get_persons"
        /\ Serve(r)

\* POST /persons
InsertPersonsRequest ==
    \E r \in InsertPersonsRequests :
        /\ Route(r.method, r.resource, r.item) = "insert_persons"
        /\ Serve(r)

\* PATCH /persons/<id>
EditPersonsRequest ==
    \E r \in EditPersonsRequests :
        /\ Route(r.method, r.resource, r.item) = "edit_persons"
        /\ Serve(r)

\* DELETE /persons/<id>
DeletePersonsRequest ==
    \E r \in DeletePersonsRequests :
        /\ Route(r.method, r.resource, r.item) = "delete_persons"
        /\ Serve(r)

\* GET /games
GetGamesRequest ==
    \E r \in GetGamesRequests :
        /\ Route(r.method, r.resource, r.item) = "get_games"
        /\ Serve(r)

\* POST /games
InsertGamesRequest ==
    \E r \in InsertGamesRequests :
        /\ Route(r.method, r.resource, r.item) = "insert_games"
        /\ Serve(r)

\* PATCH /games/<id>
EditGamesRequest ==
    \E r \in EditGamesRequests :
        /\ Route(r.method, r.resource, r.item) = "edit_games"
        /\ Serve(r)

\* DELETE /games/<id>
DeleteGamesRequest ==
    \E r \in DeleteGamesRequests :
        /\ Route(r.method, r.resource, r.item) = "delete_games"
        /\ Serve(r)

\* a method the path's rule does not list
UnroutedRequest ==
    \E r \in UnroutedRequests :
        /\ Route(r.method, r.resource, r.item) = ""
        /\ Serve(r)

Next ==
    \/ GetPersonsRequest
    \/ InsertPersonsRequest
    \/ EditPersonsRequest
    \/ DeletePersonsRequest
    \/ GetGamesRequest
    \/ InsertGamesRequest
    \/ EditGamesRequest
    \/ DeleteGamesRequest
    \/ UnroutedRequest

Spec == Init /\ [][Next]_vars

-----------------------------------------------------------------------------
(* paginate_results on its own: any page, any selection *)

SelectionRows == {Game(1, "G1", "today"), Game(2, "G2", "today")}

RECURSIVE SeqsUpTo(_, _)
SeqsUpTo(S, n) ==
    IF n = 0 THEN {<<>>}
    ELSE LET shorter == SeqsUpTo(S, n - 1)
         IN  shorter \cup {Append(q, x) : q \in shorter, x \in S}

InitPaginate ==
    /\ InitDb
    /\ pgPage \in -MaxPage .. MaxPage + 1
    /\ pgSelection \in SeqsUpTo(SelectionRows, MaxSelection)
    /\ pgResult = <<>>
    /\ pgDone = FALSE
    /\ InitRc

PaginateCall ==
    /\ ~pgDone
    /\ pgResult' = PaginateResults(pgPage, FormatGames(pgSelection))
    /\ pgDone' = TRUE
    /\ UNCHANGED <<dbVars, pgPage, pgSelection, rcVars>>

NextPaginate == PaginateCall

SpecPaginate == InitPaginate /\ [][NextPaginate]_vars

-----------------------------------------------------------------------------
(* Two PATCH handlers on one record, each in its own session, step by      *)
(* step: one_or_none, the assignments, update()                            *)

\* bodies the concurrent PATCH requests carry
RaceBodies(resource) ==
    IF resource = "persons"
    THEN {NoBody,
          PersonBody(NoneVal, Some(30), NoneVal),
          PersonBody(Some("Crisso"), NoneVal, NoneVal),
          PersonBody(Some("Matthew"), Some(30), NoneVal),
          PersonBody(Some("Crisso"), Some(30), Some("Female"))}
    ELSE {NoBody,
          GameBody(Some("G2"), NoneVal),
          GameBody(NoneVal, Some("2020-01-02")),
          GameBody(Some("G2"), Some("2020-01-02"))}

\* authorized PATCH requests on the seeded record of a resource
RaceRequests(resource) ==
    {Request("PATCH", resource, TRUE, FullToken, Args(IdStrings[1], NoneVal, b)) :
        b \in RaceBodies(resource)}

InitRace ==
    /\ InitDb
    /\ InitPg
    /\ \E resource \in Resources : rcRequest \in [Handlers -> RaceRequests(resource)]
    /\ rcPc = [k \in Handlers |-> "start"]
    /\ rcLoaded = [k \in Handlers |-> NoneVal]
    /\ rcObject = [k \in Handlers |-> NoneVal]
    /\ rcResponse = [k \in Handlers |-> NoResponse]
    /\ rcOrder = <<>>

\* the table a concurrent request addresses
RaceTable(r) == IF r.resource = "persons" THEN persons ELSE games

\* gate, body check and one_or_none: the handler answers an error as the
\* request served alone would, or holds the row it loaded
Load(k) ==
    LET r   == rcRequest[k]
        out == Dispatch(r, Database)
    IN  /\ rcPc[k] = "start"
        /\ IF out.response.status # 200
           THEN /\ rcPc' = [rcPc EXCEPT ![k] = "done"]
                /\ rcResponse' = [rcResponse EXCEPT ![k] = out.response]
                /\ UNCHANGED rcLoaded
           ELSE /\ rcPc' = [rcPc EXCEPT ![k] = "loaded"]
                /\ rcLoaded' = [rcLoaded EXCEPT
                                  ![k] = OneOrNone(RaceTable(r), ParseId(r.id))]
                /\ UNCHANGED rcResponse
        /\ UNCHANGED <<dbVars, pgVars, rcRequest, rcObject, rcOrder>>

\* body.get(...) with the loaded values as defaults, and the assignments
Assign(k) ==
    LET r      == rcRequest[k]
        loaded == TheVal(rcLoaded[k])
    IN  /\ rcPc[k] = "loaded"
        /\ rcPc' = [rcPc EXCEPT ![k] = "assigned"]
        /\ rcObject' = [rcObject EXCEPT
                          ![k] = IF r.resource = "persons"
                                 THEN Some(PatchedPerson(loaded, r.body))
                                 ELSE Some(PatchedGame(loaded, r.body))]
        /\ UNCHANGED <<dbVars, pgVars, rcRequest, rcLoaded, rcResponse, rcOrder>>

\* update() and the response, which format() builds from the row as
\* refreshed after the commit
Update(k) ==
    LET r       == rcRequest[k]
        object  == TheVal(rcObject[k])
        rows    == Commit(RaceTable(r), TheVal(rcLoaded[k]), object)
        current == TheVal(OneOrNone(rows, object.id))
    IN  /\ rcPc[k] = "assigned"
        /\ rcPc' = [rcPc EXCEPT ![k] = "done"]
        /\ rcOrder' = Append(rcOrder, k)
        /\ IF r.resource = "persons"
           THEN /\ persons' = rows
                /\ rcResponse' = [rcResponse EXCEPT ![k] =
                      [Success EXCEPT !.key = "updated", !.id = Some(object.id),
                                      !.listkey = "person",
                                      !.records = <<PersonFormat(current)>>]]
                /\ UNCHANGED games
           ELSE /\ games' = rows
                /\ rcResponse' = [rcResponse EXCEPT ![k] =
                      [Success EXCEPT !.key = "edited", !.id = Some(object.id),
                                      !.listkey = "game",
                                      !.records = <<GameFormat(current)>>]]
                /\ UNCHANGED persons
        /\ UNCHANGED <<performance, nextPersonId, nextGameId, request, response,
                       before, hist, pgVars, rcRequest, rcLoaded, rcObject>>

NextRace ==
    \/ \E k \in Handlers : Load(k)
    \/ \E k \in Handlers : Assign(k)
    \/ \E k \in Handlers : Update(k)

SpecRace == InitRace /\ [][NextRace]_vars

-----------------------------------------------------------------------------
(* Properties *)

\* the endpoint the last request was routed to ("" before the first request
\* and for a method the rule does not list)
Endpoint == Route(request.method, request.resource, request.item)

\* the last request carries a verified token with a permissions claim
Verified ==
    request.header = "bearer" /\ request.token = "valid" /\ request.claim

\* the last request passes every stage of the gate of its endpoint
Authorized ==
    Endpoint \in Endpoints /\ Verified /\ TablePermission(Endpoint) \in request.perms

TablesUntouched ==
    /\ persons = before.persons
    /\ games = before.games
    /\ hist = before.hist

\* C1: a request to any of the eight endpoints that fails the authorization
\* gate is answered by the AuthError handler, never by the view, and the
\* stored persons and games are the same after it as before it.
C1_AuthorizationOrdering ==
    (Endpoint \in Endpoints /\ ~Authorized) =>
        /\ response.stage = "auth"
        /\ response.status \in {400, 401, 403}
        /\ TablesUntouched

\* C1 witness: a DELETE of an existing person without Authorization header
\* was answered 401 and the person is still stored.
C1_Witness ==
    /\ Endpoint = "delete_persons"
    /\ request.header = "absent"
    /\ ParseId(request.id) \in Ids(persons)
    /\ response.status = 401

\* C2: the view of an endpoint runs only for a verified token whose
\* permissions contain the endpoint's own permission; a verified token
\* without it gets 403 "Permission not found.", whatever else it holds.
C2_OwnPermission ==
    Endpoint \in Endpoints =>
        /\ response.stage \in {"view", "call"} =>
              Verified /\ TablePermission(Endpoint) \in request.perms
        /\ (Verified /\ TablePermission(Endpoint) \notin request.perms) =>
              /\ response.status = 403
              /\ response.message = "Permission not found."
              /\ response.stage = "auth"

\* C2 witness: DELETE /games/<id> with a token holding every permission but
\* delete:games was answered 403.
C2_Witness ==
    /\ Endpoint = "delete_games"
    /\ Verified
    /\ request.perms = AllPermissions \ {"delete:games"}
    /\ response.status = 403
    /\ response.message = "Permission not found."

\* the status the gate's first failing stage answers with, 0 when no stage
\* fails
FirstFailure ==
    CASE request.header = "absent"    -> 401
      [] request.header = "malformed" -> 401
      [] request.token # "valid"      -> 401
      [] ~request.claim               -> 400
      [] TablePermission(Endpoint) \notin request.perms -> 403
      [] OTHER -> 0

\* C3: the gate answers with the first failing stage in the order header
\* absent (401, "Authorization header is expected."), header malformed
\* (401), token expired / invalid claims / invalid signature (401),
\* permissions claim missing (400), permission not in the list (403), and
\* the view is reached only if no stage fails.
C3_FirstFailureExit ==
    Endpoint \in Endpoints =>
        /\ FirstFailure # 0 =>
              /\ response.stage = "auth"
              /\ response.status = FirstFailure
              /\ response.error = FirstFailure
              /\ ~response.success
        /\ request.header = "absent" =>
              response.message = "Authorization header is expected."
        /\ FirstFailure = 0 <=> response.stage # "auth"

\* C3 witness: a token with an invalid signature and no permission at all
\* was answered 401, the earlier of its two failures.
C3_Witness ==
    /\ Endpoint \in Endpoints
    /\ request.header = "bearer"
    /\ request.token = "invalid_signature"
    /\ request.perms = {}
    /\ response.status = 401

\* C4: once the gate passes, the view's body runs and produces its own
\* response, on every endpoint; an authorized GET /persons?page=1 on a
\* non-empty collection returns 200 with a non-empty persons list, and an
\* authorized POST /persons with name and age returns 200 with the created
\* id.
C4_HandlerRuns ==
    Authorized =>
        /\ response.stage = "view"
        /\ response.status \in {200, 400, 404, 422}
        /\ (Endpoint = "get_persons" /\ request.page = Some(1)
               /\ before.persons # <<>>) =>
              /\ response.status = 200
              /\ response.success
              /\ response.listkey = "persons"
              /\ response.records # <<>>
        /\ (Endpoint = "insert_persons" /\ ~FalsyStr(request.body.name)
               /\ ~FalsyInt(request.body.age)) =>
              /\ response.status = 200
              /\ response.key = "created"
              /\ response.id # NoneVal

\* the row with the given id, in a table that holds one
RowOf(rows, id) == CHOOSE row \in OneOrNone(rows, id) : TRUE

\* a field after a partial update: the body's value if the body names the
\* field, the stored value otherwise
Patched(field, stored) == IF field # NoneVal THEN TheVal(field) ELSE stored

\* every row but the one with the given id is the same, at the same place
OthersSame(old, new, id) ==
    /\ Len(new) = Len(old)
    /\ \A i \in DOMAIN old :
          IF old[i].id = id THEN new[i].id = id ELSE new[i] = old[i]

\* C5: a successful PATCH changes only the fields its body names, in the
\* record with the path's id; omitted fields keep their stored values and
\* every other person and game is unchanged.
C5_PartialUpdate ==
    LET id   == ParseId(request.id)
        body == request.body
    IN  /\ (Endpoint = "edit_persons" /\ response.status = 200) =>
              LET old == RowOf(before.persons, id)
                  new == RowOf(persons, id)
              IN  /\ new.name = Patched(body.name, old.name)
                  /\ new.age = Patched(body.age, old.age)
                  /\ new.gender = Patched(body.gender, old.gender)
                  /\ OthersSame(before.persons, persons, id)
                  /\ games = before.games
        /\ (Endpoint = "edit_games" /\ response.status = 200) =>
              LET old == RowOf(before.games, id)
                  new == RowOf(games, id)
              IN  /\ new.title = Patched(body.title, old.title)
                  /\ new.release_date = Patched(body.release_date, old.release_date)
                  /\ OthersSame(before.games, games, id)
                  /\ persons = before.persons

\* C5 witness: a PATCH naming name and age but not gender changed the name
\* of a person whose gender an earlier PATCH had set.
C5_Witness ==
    /\ Endpoint = "edit_persons"
    /\ response.status = 200
    /\ request.body.gender = NoneVal
    /\ request.body.name # NoneVal
    /\ RowOf(before.persons, ParseId(request.id)).gender = "Female"
    /\ RowOf(persons, ParseId(request.id)).name
          # RowOf(before.persons, ParseId(request.id)).name

\* the ids of the requested resource that a DELETE was answered 200 for
\* before the last request
DeletedBefore ==
    IF request.resource = "persons" THEN before.hist.deletedPersons
    ELSE before.hist.deletedGames

\* the last request, with every permission, addresses a deleted id
OnDeletedId ==
    /\ request.resource \in Resources
    /\ request.item
    /\ Verified
    /\ request.perms = AllPermissions
    /\ ParseId(request.id) \in DeletedBefore

\* C6 as claimed: after a successful DELETE of an id, every later
\* authorized GET, PATCH or DELETE on that id returns 404.
C6_DeletedIsNotFound ==
    (OnDeletedId /\ request.method \in {"GET", "PATCH", "DELETE"}) =>
        response.status = 404

\* C6 as amended: after a successful DELETE of an id, every later
\* authorized DELETE on that id, and every authorized PATCH on it that
\* carries a non-empty JSON body, returns 404 with the message naming the
\* id; a PATCH without such a body returns 400, and a GET on the id's path,
\* for which no view is registered, 405.
C6_DeletedIsNotFoundAmended ==
    OnDeletedId =>
        /\ (request.method = "DELETE"
              \/ (request.method = "PATCH" /\ ~BodyFalsy(request.body))) =>
              /\ response.status = 404
              /\ response.error = 404
              /\ TablesUntouched
        /\ (request.method = "PATCH" /\ BodyFalsy(request.body)) =>
              response.status = 400
        /\ request.method = "GET" => response.status = 405

\* C6 witness: a PATCH with a body on the id of a deleted game was answered
\* 404 after a new game had been created in between.
C6_Witness ==
    /\ Endpoint = "edit_games"
    /\ OnDeletedId
    /\ ~BodyFalsy(request.body)
    /\ Len(games) > 0
    /\ response.status = 404

PositionsOfPage(collection, p) ==
    LET lo == Max2((p - 1) * ROWS_PER_PAGE, 0)
        hi == Min2(p * ROWS_PER_PAGE, Len(collection))
    IN  IF lo < hi THEN SubSeq(collection, lo + 1, hi) ELSE <<>>

\* C8: for every page number p, p <= 0 included, paginate_results returns
\* exactly the records at the 0-based positions (p-1)*N <= i < p*N, in
\* order and at most N of them, and the empty sequence when there is none.
C8_PageIsPositions ==
    pgDone =>
        /\ pgResult = PositionsOfPage(FormatGames(pgSelection), pgPage)
        /\ Len(pgResult) <= ROWS_PER_PAGE

\* the slice paginate_results returns for the last request on the persons
PersonsSlice == PaginateResults(PageArg(request), FormatPersons(persons))

\* the slice paginate_results returns for the last request on the games
GamesSlice == PaginateResults(PageArg(request), FormatGames(games))

\* C9: an authorized GET /persons or GET /games returns 404 with its "no ...
\* found in database." message exactly when the paginated slice of the
\* requested page is empty, and otherwise 200 with that slice under the key
\* persons / games.
C9_EmptySliceIsNotFound ==
    /\ (Authorized /\ Endpoint = "get_persons") =>
          IF PersonsSlice = <<>>
          THEN /\ response.status = 404
               /\ response.message = "no persons found in database."
          ELSE /\ response.status = 200
               /\ response.listkey = "persons"
               /\ response.records = PersonsSlice
    /\ (Authorized /\ Endpoint = "get_games") =>
          IF GamesSlice = <<>>
          THEN /\ response.status = 404
               /\ response.message = "no games found in database."
          ELSE /\ response.status = 200
               /\ response.listkey = "games"
               /\ response.records = GamesSlice

\* C10: an authorized POST /persons or POST /games in which a required
\* field is absent or empty is answered 422 with a message naming a missing
\* field, and inserts nothing.
C10_MissingFieldIs422 ==
    /\ (Authorized /\ Endpoint = "insert_persons"
          /\ (FalsyStr(request.body.name) \/ FalsyInt(request.body.age))) =>
          /\ response.status = 422
          /\ \/ FalsyStr(request.body.name) /\ response.message = "no name provided."
             \/ FalsyInt(request.body.age) /\ response.message = "no age provided."
          /\ TablesUntouched
    /\ (Authorized /\ Endpoint = "insert_games"
          /\ (FalsyStr(request.body.title) \/ FalsyStr(request.body.release_date))) =>
          /\ response.status = 422
          /\ \/ FalsyStr(request.body.title) /\ response.message = "no title provided."
             \/ FalsyStr(request.body.release_date)
                  /\ response.message = "no \"release_date\" provided."
          /\ TablesUntouched

\* C11: an authorized PATCH without a valid JSON body is answered 400
\* "request does not contain a valid JSON body." whether or not the id
\* exists; one with a body whose id matches no record is answered 404 with
\* a message naming that id; neither modifies a record.
C11_PatchValidationOrder ==
    /\ (Authorized /\ Endpoint \in {"edit_persons", "edit_games"}
          /\ BodyFalsy(request.body)) =>
          /\ response.status = 400
          /\ response.message = "request does not contain a valid JSON body."
          /\ TablesUntouched
    /\ (Authorized /\ Endpoint = "edit_persons" /\ ~BodyFalsy(request.body)
          /\ ParseId(request.id) \notin Ids(before.persons)) =>
          /\ response.status = 404
          /\ response.message =
                "Person with id " \o request.id \o " not found in database."
          /\ TablesUntouched
    /\ (Authorized /\ Endpoint = "edit_games" /\ ~BodyFalsy(request.body)
          /\ ParseId(request.id) \notin Ids(before.games)) =>
          /\ response.status = 404
          /\ response.message =
                "Game with id " \o request.id \o " not found in database."
          /\ TablesUntouched

\* C11 witness: a PATCH without a body on a person id that matches no
\* record was answered 400, not 404.
C11_Witness ==
    /\ Authorized
    /\ Endpoint = "edit_persons"
    /\ BodyFalsy(request.body)
    /\ ParseId(request.id) \notin Ids(before.persons)
    /\ response.status = 400

\* the formatted records of a list with the given id
WithId(records, id) == {records[i] : i \in {j \in DOMAIN records : records[j].id = id}}

\* C12: a record created by a valid POST is found in the full list
\* serialized to exactly the submitted field values plus the assigned id,
\* with gender "Other" when POST /persons omitted gender.
C12_RoundTrip ==
    LET body == request.body
    IN  /\ (Authorized /\ Endpoint = "insert_persons" /\ ~FalsyStr(body.name)
              /\ ~FalsyInt(body.age)) =>
              /\ response.status = 200
              /\ response.id # NoneVal
              /\ WithId(FormatPersons(persons), TheVal(response.id)) =
                    {[id |-> TheVal(response.id), name |-> TheVal(body.name),
                      age |-> TheVal(body.age),
                      gender |-> IF body.gender = NoneVal THEN "Other"
                                 ELSE TheVal(body.gender)]}
        /\ (Authorized /\ Endpoint = "insert_games" /\ ~FalsyStr(body.title)
              /\ ~FalsyStr(body.release_date)) =>
              /\ response.status = 200
              /\ response.id # NoneVal
              /\ WithId(FormatGames(games), TheVal(response.id)) =
                    {[id |-> TheVal(response.id), title |-> TheVal(body.title),
                      release_date |-> TheVal(body.release_date)]}

\* C13: every non-success response has the body {"success": false,
\* "error": <status>, "message": <string>} whose error field equals the HTTP
\* status code of the response.
C13_ErrorEnvelope ==
    response.status \notin {0, 200} =>
        /\ response.json
        /\ ~response.success
        /\ response.error = response.status

\* C14: a request answered with an error (400, 401, 403, 404 or 422)
\* leaves the stored persons and games, and every field of every record,
\* as they were before the request.
C14_ErrorsLeaveState ==
    response.status \in {400, 401, 403, 404, 422} =>
        /\ persons = before.persons
        /\ games = before.games
        /\ hist = before.hist

\* C14 witness: a POST /games with a title but no release_date, which fails
\* its second check, was answered 422 while a game was stored.
C14_Witness ==
    /\ Authorized
    /\ Endpoint = "insert_games"
    /\ ~FalsyStr(request.body.title)
    /\ FalsyStr(request.body.release_date)
    /\ response.status = 422
    /\ Len(games) > 0

\* C15: in every reachable state every stored person has a non-empty name
\* and a positive age, and every stored game has a non-empty title.
C15_DataModelInvariant ==
    /\ \A i \in DOMAIN persons : persons[i].name # "" /\ persons[i].age > 0
    /\ \A i \in DOMAIN games : games[i].title # ""

\* C17: after db_drop_and_create_all the database holds one person, one
\* game and one Performance row whose Game_id and Person_id are the ids
\* assigned to the seeded game and the seeded person, with fee 500.
C17_SeedData ==
    response.stage = "none" =>
        /\ Len(persons) = 1
        /\ Len(games) = 1
        /\ Len(performance) = 1
        /\ performance[1].Game_id = Some(games[1].id)
        /\ performance[1].Person_id = Some(persons[1].id)
        /\ performance[1].person_fee = 500

\* both concurrent handlers have answered, both after a commit
BothCommitted == (\A k \in Handlers : rcPc[k] = "done") /\ Len(rcOrder) = 2

\* the two requests overlap: the handler that commits last read the record
\* as the first one read it, not as the first one's commit left it
Overlapped == rcLoaded[rcOrder[2]] = rcLoaded[rcOrder[1]]

\* the record the concurrent requests address, as stored now
RaceRow == RowOf(RaceTable(rcRequest[1]), ParseId(rcRequest[1].id))

\* the handler assigned the field a value other than the one it read
Changed(k, f) == TheVal(rcObject[k])[f] # TheVal(rcLoaded[k])[f]

\* the status a concurrent request is answered with when served alone
AloneStatus(k) == Dispatch(rcRequest[k], DbDropAndCreateAll).response.status

\* no concurrent request that has been answered failed because of the race
NoneFailsByRace ==
    \A k \in Handlers :
        rcPc[k] = "done" => rcResponse[k].status = AloneStatus(k)

\* C16 as claimed: when two PATCH requests on the same record overlap, the
\* final stored value of every field is the value written by the request
\* that commits last, and no request fails because of the race.
C16_LastWriteWins ==
    /\ NoneFailsByRace
    /\ (BothCommitted /\ Overlapped) =>
          \A f \in DOMAIN RaceRow :
              RaceRow[f] = TheVal(rcObject[rcOrder[2]])[f]

\* C16 as amended: when two PATCH requests on the same record overlap, a
\* commit stores only the fields whose assigned value differs from the
\* value its handler read; the final stored value of a field is the one
\* assigned by the last-committing request among those that changed it, a
\* field neither changed keeps its stored value, and no request fails
\* because of the race.
C16_LastChangeWinsPerField ==
    /\ NoneFailsByRace
    /\ (BothCommitted /\ Overlapped) =>
          LET first == rcOrder[1]
              last  == rcOrder[2]
          IN  \A f \in DOMAIN RaceRow :
                  RaceRow[f] =
                     IF Changed(last, f) THEN TheVal(rcObject[last])[f]
                     ELSE IF Changed(first, f) THEN TheVal(rcObject[first])[f]
                     ELSE TheVal(rcLoaded[first])[f]

\* C16 witness: two overlapping PATCH requests on the seeded person have
\* committed, each having changed a field, and the stored record is not the
\* one the last committer assigned.
C16_Witness ==
    /\ BothCommitted
    /\ Overlapped
    /\ rcRequest[1].resource = "persons"
    /\ \A k \in Handlers : \E f \in DOMAIN RaceRow : Changed(k, f)
    /\ \A k \in Handlers : rcResponse[k].status = 200
    /\ RaceRow # TheVal(rcObject[rcOrder[2]])

=============================================================================
